---- MODULE Spec2Model ----
(***************************************************************************)
(* A model of Penzer's Memory layer (src/Agent/memory.py): the SQLite task *)
(* queue and the embedding store with its on-disk snapshot.                *)
(***************************************************************************)
EXTENDS Integers, Sequences, FiniteSets, TLC

(***************************************************************************)
(* Input sets and bounds.                                                  *)
(***************************************************************************)
\* task ids, commands and result payloads the callers pass (Python str)
TaskIds == {"t1", "t2", "t3"}

Commands == {"ping host", "nmap host"}

ResultStrs == {"r1", "r2"}

\* at most this many rows are inserted into the tasks table
MaxTasks == 2

\* embedding ids and metadata payloads the callers pass
EmbIds == {"a", "b"}

MetaVals == {"m1"}

\* Memory(..., embedding_dim=4), the dimension of the demo and of the spec's scenario
embedding_dim == 4

\* vectors of the right dimension, and one that is too short
Vecs == {<<1, 0, 0, 0>>, <<0, 1, 0, 0>>}

BadVecs == {<<1, 0, 0>>}

\* at most this many vectors are held by a backend at once
MaxRows == 2

\* add_embedding is not called once _next_int_id has passed this value
MaxIntId == 3

\* the process is killed and started again at most this many times
MaxRestarts == 1

\* at most this many snapshot writes raise
MaxFailures == 1

\* the values of top_k
TopKs == {1, 2}

VARIABLES
    tasks,      \* the tasks table of db_path, rows in rowid (insertion) order
    conn,       \* self._conn is not None
    call,       \* the last completed call: its name, arguments and outcome
    prevTasks,  \* the tasks table when that call started
    prevGet,    \* <<ret>> when the call before the last was get_next_task, else <<>>
    prevConn,   \* self._conn was not None when the last call of the queue started
    held,       \* the task the consumer loop fetched and has not yet completed
    agent,      \* where Agent.run_once stands, with its local variables
    use_faiss,      \* self._use_faiss: the faiss import succeeded
    emb_matrix,     \* self._emb_matrix: None, or the rows of the matrix
    emb_ids,        \* self._emb_ids
    faiss_index,    \* self._faiss_index: None, or the (int id, vector) entries in order
    intid_to_str,   \* self._intid_to_str, a dict: its items in insertion order
    next_int_id,    \* self._next_int_id
    f_embeddings,   \* index_dir/embeddings.npy
    f_emb_ids,      \* index_dir/emb_ids.json
    f_index,        \* index_dir/index.faiss
    f_meta,         \* index_dir/meta.json
    f_metadata,     \* index_dir/metadata.json
    unreadable,     \* the files of index_dir whose content cannot be read back
    pc,             \* where the add_embedding/delete_embedding in flight stands
    cur,            \* the arguments of the call in flight
    pc2,            \* the same two for a second coroutine that has a call of the
    cur2,           \* store in flight while the first one runs
    write_failed,   \* a file write of the last snapshot write raised
    any_failed,     \* how many snapshot writes raised since index_dir was created
    pre,            \* the embedding state when the last mutation started
    post,           \* the embedding state that mutation produced in memory
    restarts        \* how many times the process was killed and started again

queueVars == <<tasks, conn, call, prevTasks, prevGet, prevConn, held, agent>>

memVars == <<emb_matrix, emb_ids, faiss_index, intid_to_str, next_int_id>>

diskVars == <<f_embeddings, f_emb_ids, f_index, f_meta, f_metadata, unreadable>>

storeVars ==
    <<use_faiss, memVars, diskVars, pc, cur, pc2, cur2, write_failed, any_failed, pre, post,
      restarts>>

vars == <<queueVars, storeVars>>

(***************************************************************************)
(* Values.                                                                 *)
(***************************************************************************)
\* Python None
None == <<>>

\* SQL NULL in the result column
Null == <<>>

\* a completed call; ret is what it returned, exc the exception it raised
Call(op, id, arg, ret, exc) ==
    [op |-> op, id |-> id, arg |-> arg, ret |-> ret, exc |-> exc]

(***************************************************************************)
(* The SQL statements of the task queue, on a table given as the sequence  *)
(* of its rows in rowid order.                                             *)
(***************************************************************************)
HasId(tbl, id) == \E i \in DOMAIN tbl : tbl[i].id = id

RowOf(tbl, id) == tbl[CHOOSE i \in DOMAIN tbl : tbl[i].id = id]

\* INSERT OR REPLACE: what add_task would do if it overwrote an existing row
InsertOrReplace(tbl, id, command) ==
    LET row == [id |-> id, command |-> command, status |-> "pending", result |-> Null]
        kept == SelectSeq(tbl, LAMBDA r : r.id # id)
    IN  Append(kept, row)

\* a plain INSERT INTO a table whose id is not a key
InsertAlways(tbl, id, command) ==
    Append(tbl, [id |-> id, command |-> command, status |-> "pending", result |-> Null])

\* INSERT OR IGNORE INTO tasks (id, command) VALUES (?, ?): id is the PRIMARY
\* KEY, status takes its DEFAULT 'pending', result is NULL
InsertOrIgnore(tbl, id, command) ==
    IF HasId(tbl, id)
    THEN tbl
    ELSE Append(tbl, [id |-> id, command |-> command,
                      status |-> "pending", result |-> Null])

\* the first row in rowid order satisfying the WHERE clause, as (id, command)
RECURSIVE FirstWhere(_, _, _)
FirstWhere(tbl, i, status) ==
    IF i > Len(tbl) THEN None
    ELSE IF tbl[i].status = status THEN <<tbl[i].id, tbl[i].command>>
    ELSE FirstWhere(tbl, i + 1, status)

\* a SELECT that takes the latest pending row (ORDER BY rowid DESC)
RECURSIVE LastWhere(_, _, _)
LastWhere(tbl, i, status) ==
    IF i < 1 THEN None
    ELSE IF tbl[i].status = status THEN <<tbl[i].id, tbl[i].command>>
    ELSE LastWhere(tbl, i - 1, status)

SelectLastPending(tbl) == LastWhere(tbl, Len(tbl), "pending")

\* a SELECT that forgot the WHERE clause
SelectAnyLimit1(tbl) ==
    IF Len(tbl) = 0 THEN None ELSE <<tbl[1].id, tbl[1].command>>

\* SELECT id, command FROM tasks WHERE status='pending' LIMIT 1, then
\* fetchone(): SQLite answers it by a scan of the table in rowid order (the
\* only index is the one on id, which does not cover the query), and rowids
\* grow with every insert since no row is ever deleted
SelectPendingLimit1(tbl) == FirstWhere(tbl, 1, "pending")

\* an UPDATE that forgot to set the result column
UpdateDoneNoResult(tbl, id, result) ==
    [i \in DOMAIN tbl |->
        IF tbl[i].id = id THEN [tbl[i] EXCEPT !.status = "done"] ELSE tbl[i]]

\* an UPDATE that forgot the WHERE clause
UpdateAllDone(tbl, id, result) ==
    [i \in DOMAIN tbl |-> [tbl[i] EXCEPT !.status = "done", !.result = <<result>>]]

\* UPDATE tasks SET status='done', result=? WHERE id=?
UpdateDone(tbl, id, result) ==
    [i \in DOMAIN tbl |->
        IF tbl[i].id = id
        THEN [tbl[i] EXCEPT !.status = "done", !.result = <<result>>]
        ELSE tbl[i]]

(***************************************************************************)
(* The task queue's operations.  Each awaits _ensure_conn() first, which   *)
(* opens the connection when there is none and creates the table when it   *)
(* does not exist; each statement is committed before the call returns, so *)
(* the table of the database file is the table the calls see.  db_path     *)
(* names a file, as its default "penzer.db" does.                          *)
(***************************************************************************)
\* run_once has not fetched a task
AgentIdle == [pc |-> "fetch", risk |-> 0, approved |-> FALSE, parsed |-> None]

QueueInit ==
    /\ tasks = <<>>
    /\ conn = FALSE
    /\ call = Call("init", "", "", None, "none")
    /\ prevTasks = <<>>
    /\ prevGet = <<>>
    /\ prevConn = FALSE
    /\ held = None
    /\ agent = AgentIdle

\* what every call leaves behind of the call before it
Remember ==
    /\ prevTasks' = tasks
    /\ prevGet' = IF call.op = "get_next_task" THEN <<call.ret>> ELSE <<>>
    /\ prevConn' = conn

add_task(task_id, command) ==
    /\ HasId(tasks, task_id) \/ Len(tasks) < MaxTasks
    /\ conn' = TRUE
    /\ tasks' = InsertOrIgnore(tasks, task_id, command)
    /\ call' = Call("add_task", task_id, command, None, "none")
    /\ Remember

\* a get_next_task that marks the task it returns as in progress
get_next_task_claiming ==
    /\ conn' = TRUE
    /\ tasks' = [i \in DOMAIN tasks |->
                    IF SelectPendingLimit1(tasks) # None
                       /\ tasks[i].id = SelectPendingLimit1(tasks)[1]
                    THEN [tasks[i] EXCEPT !.status = "running"]
                    ELSE tasks[i]]
    /\ call' = Call("get_next_task", "", "", SelectPendingLimit1(tasks), "none")
    /\ Remember

get_next_task ==
    /\ conn' = TRUE
    /\ tasks' = tasks
    /\ call' = Call("get_next_task", "", "", SelectPendingLimit1(tasks), "none")
    /\ Remember

store_result(task_id, result) ==
    /\ conn' = TRUE
    /\ tasks' = UpdateDone(tasks, task_id, result)
    /\ call' = Call("store_result", task_id, result, None, "none")
    /\ Remember

\* a close that takes the tasks table with it, as closing the only
\* connection to an in-memory database would
close_losing_tasks ==
    /\ conn' = FALSE
    /\ tasks' = <<>>
    /\ call' = Call("close", "", "", None, "none")
    /\ Remember

close ==
    /\ conn' = FALSE
    /\ tasks' = tasks
    /\ call' = Call("close", "", "", None, "none")
    /\ Remember

(***************************************************************************)
(* The embedding store's values.                                           *)
(***************************************************************************)
\* an optional value (an attribute that may be None) or a file that may not exist
Absent == [some |-> FALSE, v |-> <<>>]

Some(x) == [some |-> TRUE, v |-> x]

\* a Python dict as its items in insertion order: d[k] = v keeps the place of
\* a key already present
DictSet(d, k, v) ==
    IF \E i \in DOMAIN d : d[i].k = k
    THEN [i \in DOMAIN d |-> IF d[i].k = k THEN [k |-> k, v |-> v] ELSE d[i]]
    ELSE Append(d, [k |-> k, v |-> v])

\* d.pop(k, None)
DictPop(d, k) == SelectSeq(d, LAMBDA e : e.k # k)

\* list.index(x), 1-based; list.pop(idx) and np.delete(mat, idx, axis=0)
IndexOf(seq, x) == CHOOSE i \in DOMAIN seq : seq[i] = x /\ \A j \in 1..(i - 1) : seq[j] # x

RemoveAt(seq, idx) == [i \in 1..(Len(seq) - 1) |-> IF i < idx THEN seq[i] ELSE seq[i + 1]]

\* str(k) of an integer key, and int(s) of such a string
Str(k) == ToString(k)

ParseInt(s) == CHOOSE k \in 0..(MaxIntId + 1) : ToString(k) = s

\* the attributes __init__ sets before it tries to load
Fresh ==
    [emb_matrix |-> Absent, emb_ids |-> <<>>, faiss_index |-> Absent,
     intid_to_str |-> <<>>, next_int_id |-> 1]

\* the in-memory embedding state and the files, as records
Mem ==
    [emb_matrix |-> emb_matrix, emb_ids |-> emb_ids, faiss_index |-> faiss_index,
     intid_to_str |-> intid_to_str, next_int_id |-> next_int_id]

Disk ==
    [embeddings |-> f_embeddings, emb_ids |-> f_emb_ids, index |-> f_index,
     meta |-> f_meta, metadata |-> f_metadata, unreadable |-> unreadable]

SetMem(m) ==
    /\ emb_matrix' = m.emb_matrix
    /\ emb_ids' = m.emb_ids
    /\ faiss_index' = m.faiss_index
    /\ intid_to_str' = m.intid_to_str
    /\ next_int_id' = m.next_int_id

SetDisk(d) ==
    /\ f_embeddings' = d.embeddings
    /\ f_emb_ids' = d.emb_ids
    /\ f_index' = d.index
    /\ f_meta' = d.meta
    /\ f_metadata' = d.metadata
    /\ unreadable' = d.unreadable

\* the number of vectors the active backend holds
Held(faiss, m) ==
    IF faiss
    THEN IF m.faiss_index.some THEN Len(m.faiss_index.v) ELSE 0
    ELSE IF m.emb_matrix.some /\ Len(m.emb_matrix.v) > Len(m.emb_ids)
         THEN Len(m.emb_matrix.v) ELSE Len(m.emb_ids)

(***************************************************************************)
(* _load_index and _save_index.  np.save/np.load of a float32 matrix and   *)
(* json.dump/json.load of a list of strings give back what was written;    *)
(* the id map goes through str() on its keys when written and int() when   *)
(* read.                                                                   *)
(***************************************************************************)
\* {str(k): v for k, v in self._intid_to_str.items()}
DumpIdMap(map) == [i \in DOMAIN map |-> [k |-> Str(map[i].k), v |-> map[i].v]]

\* {int(k): v for k, v in payload.get("id_map", {}).items()}
ParseIdMap(json) == [i \in DOMAIN json |-> [k |-> ParseInt(json[i].k), v |-> json[i].v]]

\* _load_index on the attributes of a just constructed Memory.  faiss.read_index,
\* np.load and json.load raise on a file they cannot read; the attributes
\* assigned before that keep what they were given, and __init__ swallows the
\* exception
LoadIndex(faiss, d) ==
    IF faiss
    THEN IF ~d.index.some
         THEN [Fresh EXCEPT
                 !.intid_to_str = IF d.meta.some /\ "meta" \notin d.unreadable
                                  THEN ParseIdMap(d.meta.v.id_map) ELSE <<>>,
                 !.next_int_id = IF d.meta.some /\ "meta" \notin d.unreadable
                                 THEN d.meta.v.next_int_id ELSE 1]
         ELSE IF "index" \in d.unreadable
              THEN Fresh
              ELSE [Fresh EXCEPT
                      !.faiss_index = Some(d.index.v),
                      !.intid_to_str = IF d.meta.some /\ "meta" \notin d.unreadable
                                       THEN ParseIdMap(d.meta.v.id_map) ELSE <<>>,
                      !.next_int_id = IF d.meta.some /\ "meta" \notin d.unreadable
                                      THEN d.meta.v.next_int_id ELSE 1]
    ELSE IF d.embeddings.some /\ d.emb_ids.some
         THEN IF "embeddings" \in d.unreadable
              THEN Fresh
              ELSE [Fresh EXCEPT
                      !.emb_matrix = Some(d.embeddings.v),
                      !.emb_ids = IF "emb_ids" \in d.unreadable THEN <<>> ELSE d.emb_ids.v]
         ELSE Fresh

\* the branch _save_index takes
SavesFaiss(faiss, m) == faiss /\ m.faiss_index.some

\* the first file write of _save_index: index.faiss, or embeddings.npy when
\* there is a matrix
SaveFirst(faiss, m, d) ==
    IF SavesFaiss(faiss, m)
    THEN [d EXCEPT !.index = Some(m.faiss_index.v), !.unreadable = @ \ {"index"}]
    ELSE IF m.emb_matrix.some
         THEN [d EXCEPT !.embeddings = Some(m.emb_matrix.v),
                        !.unreadable = @ \ {"embeddings"}]
         ELSE d

\* a second write that is forgotten
SaveSecondSkipped(faiss, m, d) == d

\* the second file write of _save_index: meta.json, or emb_ids.json
SaveSecond(faiss, m, d) ==
    IF SavesFaiss(faiss, m)
    THEN [d EXCEPT !.meta = Some([id_map |-> DumpIdMap(m.intid_to_str),
                                  next_int_id |-> m.next_int_id]),
                   !.unreadable = @ \ {"meta"}]
    ELSE [d EXCEPT !.emb_ids = Some(m.emb_ids), !.unreadable = @ \ {"emb_ids"}]

(***************************************************************************)
(* add_embedding and delete_embedding, up to the await of the snapshot.    *)
(***************************************************************************)
\* an add that puts the new row in front of the matrix
AddToMemRowInFront(faiss, m, emb_id, vec) ==
    IF faiss
    THEN LET index == IF m.faiss_index.some THEN m.faiss_index.v ELSE <<>>
             int_id == m.next_int_id
         IN  [m EXCEPT !.next_int_id = int_id + 1,
                       !.intid_to_str = DictSet(@, int_id, emb_id),
                       !.faiss_index = Some(Append(index, [id |-> int_id, vec |-> vec]))]
    ELSE [m EXCEPT !.emb_matrix = IF @.some THEN Some(<<vec>> \o @.v) ELSE Some(<<vec>>),
                   !.emb_ids = Append(@, emb_id)]

\* an add that takes the number of ids in the map plus one as its key
AddToMemCountingKeys(faiss, m, emb_id, vec) ==
    IF faiss
    THEN LET index == IF m.faiss_index.some THEN m.faiss_index.v ELSE <<>>
             int_id == Len(m.intid_to_str) + 1
         IN  [m EXCEPT !.next_int_id = int_id + 1,
                       !.intid_to_str = DictSet(@, int_id, emb_id),
                       !.faiss_index = Some(Append(index, [id |-> int_id, vec |-> vec]))]
    ELSE [m EXCEPT !.emb_matrix = IF @.some THEN Some(Append(@.v, vec)) ELSE Some(<<vec>>),
                   !.emb_ids = Append(@, emb_id)]

\* the in-memory part of add_embedding for a vector of the right dimension;
\* np.asarray(vector, dtype=np.float32) keeps the components used here, 0 and
\* 1, as they are
AddToMem(faiss, m, emb_id, vec) ==
    IF faiss
    THEN LET index == IF m.faiss_index.some THEN m.faiss_index.v ELSE <<>>
             int_id == m.next_int_id
         IN  [m EXCEPT !.next_int_id = int_id + 1,
                       !.intid_to_str = DictSet(@, int_id, emb_id),
                       !.faiss_index = Some(Append(index, [id |-> int_id, vec |-> vec]))]
    ELSE [m EXCEPT !.emb_matrix = IF @.some THEN Some(Append(@.v, vec)) ELSE Some(<<vec>>),
                   !.emb_ids = Append(@, emb_id)]

\* the key delete_embedding finds for emb_id: the first item of the dict with
\* that value, 0 for None
FindIntId(map, emb_id) ==
    IF \E i \in DOMAIN map : map[i].v = emb_id
    THEN map[CHOOSE i \in DOMAIN map :
                map[i].v = emb_id /\ \A j \in 1..(i - 1) : map[j].v # emb_id].k
    ELSE 0

\* IndexIDMap.remove_ids of one id
RemoveIds(index, int_id) == SelectSeq(index, LAMBDA e : e.id # int_id)

\* what every step of a call of the store leaves alone: the queue, the
\* agent loop and the coroutine that is not running
QueueUnchanged ==
    UNCHANGED <<tasks, conn, prevTasks, prevGet, prevConn, held, agent, pc2, cur2>>

\* a call of the store that returns or raises without a snapshot write
ReturnsWith(op, emb_id, arg, ret, exc) ==
    /\ call' = Call(op, emb_id, arg, ret, exc)
    /\ write_failed' = FALSE
    /\ pre' = Mem
    /\ post' = Mem
    /\ UNCHANGED <<use_faiss, memVars, diskVars, pc, cur, any_failed, restarts>>
    /\ QueueUnchanged

Returns(op, emb_id, ret, exc) == ReturnsWith(op, emb_id, "", ret, exc)

\* a call of the store that has changed the memory to m and now awaits
\* _persist_index_async
Persists(op, emb_id, vector, metadata, m) ==
    /\ SetMem(m)
    /\ pc' = "save_first"
    /\ cur' = [op |-> op, id |-> emb_id, vector |-> vector, metadata |-> metadata]
    /\ write_failed' = FALSE
    /\ pre' = Mem
    /\ post' = m
    /\ UNCHANGED <<use_faiss, diskVars, any_failed, call, restarts>>
    /\ QueueUnchanged

\* an add_embedding that does not compare the length of the vector with
\* embedding_dim
add_embedding_unchecked(emb_id, vector, metadata) ==
    /\ pc = "idle"
    /\ Held(use_faiss, Mem) < MaxRows
    /\ use_faiss => next_int_id <= MaxIntId
    /\ Persists("add_embedding", emb_id, vector, metadata,
                AddToMem(use_faiss, Mem, emb_id, vector))

add_embedding(emb_id, vector, metadata) ==
    /\ pc = "idle"
    /\ IF Len(vector) # embedding_dim
       THEN ReturnsWith("add_embedding", emb_id,
                        [vector |-> vector, metadata |-> metadata], None, "ValueError")
       ELSE /\ Held(use_faiss, Mem) < MaxRows
            /\ use_faiss => next_int_id <= MaxIntId
            /\ Persists("add_embedding", emb_id, vector, metadata,
                        AddToMem(use_faiss, Mem, emb_id, vector))

\* np.delete raises IndexError for a row the matrix does not have, before
\* anything is assigned
delete_embedding(emb_id) ==
    /\ pc = "idle"
    /\ IF use_faiss /\ faiss_index.some
       THEN LET int_id == FindIntId(intid_to_str, emb_id)
            IN  IF int_id = 0
                THEN Returns("delete_embedding", emb_id, <<FALSE>>, "none")
                ELSE \E removed \in BOOLEAN :
                        Persists("delete_embedding", emb_id, None, None,
                                 [Mem EXCEPT
                                    !.faiss_index =
                                        IF removed THEN Some(RemoveIds(@.v, int_id)) ELSE @,
                                    !.intid_to_str = DictPop(@, int_id)])
       ELSE IF \E i \in DOMAIN emb_ids : emb_ids[i] = emb_id
            THEN LET idx == IndexOf(emb_ids, emb_id)
                 IN  IF emb_matrix.some /\ idx > Len(emb_matrix.v)
                     THEN Returns("delete_embedding", emb_id, None, "IndexError")
                     ELSE Persists("delete_embedding", emb_id, None, None,
                                   [Mem EXCEPT
                                      !.emb_matrix =
                                          IF @.some THEN Some(RemoveAt(@.v, idx)) ELSE @,
                                      !.emb_ids = RemoveAt(@, idx)])
            ELSE Returns("delete_embedding", emb_id, <<FALSE>>, "none")

(***************************************************************************)
(* search_embeddings, list_embedding_ids and get_metadata.                 *)
(***************************************************************************)
\* search_embeddings raises ValueError for a query of the wrong length.  The
\* statements that would compute the results, return results included, are
\* indented under that raise: a query of the right length runs none of them
\* and the coroutine returns None, on either backend, whatever is stored
search_embeddings(query_vector, top_k) ==
    /\ pc = "idle"
    /\ ReturnsWith("search_embeddings", "",
                   [vector |-> query_vector, top_k |-> top_k], None,
                   IF Len(query_vector) # embedding_dim THEN "ValueError" ELSE "none")

\* list(self._intid_to_str.values()), or list(self._emb_ids)
list_embedding_ids ==
    IF use_faiss
    THEN [i \in DOMAIN intid_to_str |-> intid_to_str[i].v]
    ELSE emb_ids

\* the dict {} that get_metadata returns when it finds nothing
EmptyDict == "{}"

\* payload.get(emb_id, {}) of a metadata.json; {} when the file does not
\* exist or cannot be read
MetadataOf(file, bad, emb_id) ==
    IF /\ file.some
       /\ "metadata" \notin bad
       /\ \E i \in DOMAIN file.v : file.v[i].k = emb_id
    THEN file.v[CHOOSE i \in DOMAIN file.v : file.v[i].k = emb_id].v
    ELSE EmptyDict

get_metadata(emb_id) == MetadataOf(f_metadata, unreadable, emb_id)

(***************************************************************************)
(* The snapshot write in the worker thread, file by file, and the rest of  *)
(* the call after the await.                                               *)
(***************************************************************************)
StoreStep(newpc) ==
    /\ pc' = newpc
    /\ UNCHANGED <<use_faiss, memVars, cur, pre, post, call, restarts>>
    /\ QueueUnchanged

WriteFirst ==
    /\ pc = "save_first"
    /\ SetDisk(SaveFirst(use_faiss, Mem, Disk))
    /\ UNCHANGED <<write_failed, any_failed>>
    /\ StoreStep("save_second")

WriteSecond ==
    /\ pc = "save_second"
    /\ SetDisk(SaveSecond(use_faiss, Mem, Disk))
    /\ UNCHANGED <<write_failed, any_failed>>
    /\ StoreStep("saved")

\* a write raises (the disk is full, the directory is gone) before it has
\* changed its file: _save_index catches the exception and returns, the
\* writes after it skipped
WriteFails ==
    /\ pc \in {"save_first", "save_second"}
    /\ any_failed < MaxFailures
    /\ write_failed' = TRUE
    /\ any_failed' = any_failed + 1
    /\ UNCHANGED diskVars
    /\ StoreStep("saved")

\* existing[emb_id] = metadata on the dict read from metadata.json
MergeMetadata(file, emb_id, metadata) ==
    Some(DictSet(IF file.some THEN file.v ELSE <<>>, emb_id, metadata))

\* the snapshot write has returned: add_embedding merges the metadata into
\* metadata.json and returns None, delete_embedding returns True.  An
\* exception of the merge (json.load of a file that cannot be read, a write
\* that raises: ok is FALSE) is swallowed and the file stays as it was
FinishWith(ok) ==
    /\ pc = "saved"
    /\ pc' = "idle"
    /\ f_metadata' = IF /\ cur.op = "add_embedding"
                        /\ cur.metadata # None
                        /\ ok
                        /\ "metadata" \notin unreadable
                     THEN MergeMetadata(f_metadata, cur.id, cur.metadata[1])
                     ELSE f_metadata
    /\ call' = Call(cur.op, cur.id,
                    IF cur.op = "add_embedding"
                    THEN [vector |-> cur.vector, metadata |-> cur.metadata] ELSE "",
                    IF cur.op = "delete_embedding" THEN <<TRUE>> ELSE None, "none")
    /\ cur' = [op |-> "", id |-> "", vector |-> None, metadata |-> None]
    /\ pre' = Mem
    /\ post' = Mem
    /\ UNCHANGED <<use_faiss, memVars, f_embeddings, f_emb_ids, f_index, f_meta, unreadable,
                   write_failed, any_failed, restarts>>
    /\ QueueUnchanged

Finish == \E ok \in BOOLEAN : FinishWith(ok)

\* the process is killed and a new Memory is constructed on the same db_path
\* and index_dir; the call records where the snapshot write stood
Restart ==
    /\ restarts < MaxRestarts
    /\ restarts' = restarts + 1
    /\ SetMem(LoadIndex(use_faiss, Disk))
    /\ pc' = "idle"
    /\ cur' = [op |-> "", id |-> "", vector |-> None, metadata |-> None]
    /\ call' = Call("restart", "", pc, None, "none")
    /\ conn' = FALSE
    /\ held' = None
    /\ agent' = AgentIdle
    /\ pc2' = "idle"
    /\ cur2' = [op |-> "", id |-> "", vector |-> None, metadata |-> None]
    /\ write_failed' = FALSE
    /\ UNCHANGED <<use_faiss, diskVars, any_failed, pre, post, tasks, prevTasks, prevGet,
                   prevConn>>

StoreInit ==
    /\ use_faiss \in BOOLEAN
    /\ emb_matrix = Fresh.emb_matrix
    /\ emb_ids = Fresh.emb_ids
    /\ faiss_index = Fresh.faiss_index
    /\ intid_to_str = Fresh.intid_to_str
    /\ next_int_id = Fresh.next_int_id
    /\ f_embeddings = Absent
    /\ f_emb_ids = Absent
    /\ f_index = Absent
    /\ f_meta = Absent
    /\ f_metadata = Absent
    /\ unreadable = {}
    /\ pc = "idle"
    /\ cur = [op |-> "", id |-> "", vector |-> None, metadata |-> None]
    /\ pc2 = "idle"
    /\ cur2 = cur
    /\ write_failed = FALSE
    /\ any_failed = 0
    /\ pre = Fresh
    /\ post = Fresh
    /\ restarts = 0

\* a Memory constructed on a db_path and an index_dir that hold nothing yet
Init == QueueInit /\ StoreInit

(***************************************************************************)
(* The task queue under any sequence of calls.                             *)
(***************************************************************************)
AddTask ==
    \E id \in TaskIds, c \in Commands :
        add_task(id, c) /\ UNCHANGED <<held, agent, storeVars>>

GetNextTask == get_next_task /\ UNCHANGED <<held, agent, storeVars>>

StoreResult ==
    \E id \in TaskIds, r \in ResultStrs :
        store_result(id, r) /\ UNCHANGED <<held, agent, storeVars>>

Close == close /\ UNCHANGED <<held, agent, storeVars>>

QueueNext == AddTask \/ GetNextTask \/ StoreResult \/ Close

QueueSpec == Init /\ [][QueueNext]_vars

(***************************************************************************)
(* The task queue driven by a consumer that, like Agent.run's loop, fetches *)
(* a task and completes it before it fetches the next, while tasks are      *)
(* being added.                                                             *)
(***************************************************************************)
ConsumerFetch ==
    /\ held = None
    /\ get_next_task
    /\ held' = SelectPendingLimit1(tasks)
    /\ UNCHANGED <<agent, storeVars>>

ConsumerComplete ==
    /\ held # None
    /\ \E r \in ResultStrs : store_result(held[1], r)
    /\ held' = None
    /\ UNCHANGED <<agent, storeVars>>

QueueLiveNext == AddTask \/ ConsumerFetch \/ ConsumerComplete \/ Close

\* the loop of Agent.run calls run_once again and again
QueueLiveSpec ==
    /\ Init
    /\ [][QueueLiveNext]_vars
    /\ WF_vars(ConsumerFetch)
    /\ WF_vars(ConsumerComplete)

(***************************************************************************)
(* Properties of the task queue.                                           *)
(***************************************************************************)
\* the positions of the pending rows of a table
Pending(tbl) == {i \in DOMAIN tbl : tbl[i].status = "pending"}

\* C4: store_result on an id that is not in the table fails with NotFound
\* and leaves the table as it was.
C4_UnknownIdNotFound ==
    (call.op = "store_result" /\ ~HasId(prevTasks, call.id))
        => (call.exc = "NotFound" /\ tasks = prevTasks)

\* C5: store_result(id, result) on an existing task leaves that task done
\* with exactly the given result, and every other row, and the id and command
\* of that row, as they were.
C5_StoreResultSetsDone ==
    (call.op = "store_result" /\ HasId(prevTasks, call.id)) =>
        /\ Len(tasks) = Len(prevTasks)
        /\ \A i \in DOMAIN prevTasks :
              IF prevTasks[i].id = call.id
              THEN tasks[i] = [id |-> call.id, command |-> prevTasks[i].command,
                               status |-> "done", result |-> <<call.arg>>]
              ELSE tasks[i] = prevTasks[i]

\* a done task was completed again with another result, beside a pending one
C5_Witness ==
    /\ call.op = "store_result"
    /\ Len(prevTasks) = 2
    /\ prevTasks[1].id = call.id
    /\ prevTasks[1].status = "done"
    /\ prevTasks[1].result # <<call.arg>>
    /\ tasks[1].result = <<call.arg>>
    /\ tasks[2].status = "pending"

\* C6: no call removes a row or changes its id, and a row that is done stays
\* done.
C6_StatusMonotonic ==
    [][/\ Len(tasks') >= Len(tasks)
       /\ \A i \in DOMAIN tasks :
             /\ i \in DOMAIN tasks'
             /\ tasks'[i].id = tasks[i].id
             /\ tasks[i].status = "done" => tasks'[i].status = "done"]_vars

\* add_task was called with the id of a done task, which is still done
C6_Witness ==
    /\ call.op = "add_task"
    /\ HasId(prevTasks, call.id)
    /\ RowOf(prevTasks, call.id).status = "done"
    /\ RowOf(tasks, call.id).status = "done"

\* C7: add_task with an id of the table changes nothing; with a new id it
\* appends one pending row with that id and command and no result.
C7_IdempotentEnqueue ==
    call.op = "add_task" =>
        IF HasId(prevTasks, call.id)
        THEN tasks = prevTasks
        ELSE tasks = Append(prevTasks, [id |-> call.id, command |-> call.arg,
                                        status |-> "pending", result |-> Null])

\* add_task was called with the id of a task that has another command
C7_Witness ==
    /\ call.op = "add_task"
    /\ HasId(prevTasks, call.id)
    /\ RowOf(prevTasks, call.id).command # call.arg
    /\ RowOf(tasks, call.id).command # call.arg

\* C8: get_next_task returns None exactly when no row is pending, and
\* otherwise the id and command of the earliest inserted pending row.
C8_NextIsFirstPending ==
    call.op = "get_next_task" =>
        IF Pending(prevTasks) = {}
        THEN call.ret = None
        ELSE /\ call.ret # None
             /\ \E i \in Pending(prevTasks) :
                   /\ \A j \in Pending(prevTasks) : i <= j
                   /\ call.ret = <<prevTasks[i].id, prevTasks[i].command>>

\* the second row was returned, the first being done
C8_Witness ==
    /\ call.op = "get_next_task"
    /\ Len(tasks) = 2
    /\ tasks[1].status = "done"
    /\ call.ret = <<tasks[2].id, tasks[2].command>>

\* C9: get_next_task leaves the table as it was, and returns what the
\* get_next_task just before it returned.
C9_GetChangesNothing ==
    call.op = "get_next_task" =>
        /\ tasks = prevTasks
        /\ prevGet # <<>> => call.ret = prevGet[1]

\* two get_next_task calls in a row returned a task
C9_Witness ==
    /\ call.op = "get_next_task"
    /\ prevGet # <<>>
    /\ call.ret # None
    /\ call.ret = prevGet[1]

\* C10: a task added under a new id is eventually returned by
\* get_next_task with that id and command, and a pending task stays pending
\* until store_result is called for it.
C10_EnqueuedIsReturned ==
    /\ \A t \in TaskIds, c \in Commands :
          (call.op = "add_task" /\ call.id = t /\ call.arg = c /\ ~HasId(prevTasks, t))
              ~> (call.op = "get_next_task" /\ call.ret = <<t, c>>)
    /\ [][\A i \in DOMAIN tasks :
            (tasks[i].status = "pending" /\ tasks'[i] # tasks[i])
                => (call'.op = "store_result" /\ call'.id = tasks[i].id)]_vars

\* the consumer was handed the second task after it had completed the first
C10_Witness ==
    /\ call.op = "get_next_task"
    /\ Len(tasks) = 2
    /\ tasks[1].status = "done"
    /\ held = <<tasks[2].id, tasks[2].command>>
    /\ call.ret = held

(***************************************************************************)
(* The embedding store under any sequence of calls, write failures and     *)
(* restarts.                                                               *)
(***************************************************************************)
AddEmbedding ==
    \E emb_id \in EmbIds, vector \in Vecs \cup BadVecs,
       metadata \in {None} \cup {<<m>> : m \in MetaVals} :
        add_embedding(emb_id, vector, metadata)

DeleteEmbedding == \E emb_id \in EmbIds : delete_embedding(emb_id)

\* add_embedding(emb_id, vector): metadata takes its default, None
AddEmbeddingPlain ==
    \E emb_id \in EmbIds, vector \in Vecs \cup BadVecs :
        add_embedding(emb_id, vector, None)

StoreNext ==
    \/ AddEmbedding
    \/ DeleteEmbedding
    \/ WriteFirst
    \/ WriteSecond
    \/ WriteFails
    \/ Finish
    \/ Restart

StoreSpec == Init /\ [][StoreNext]_vars

\* the same with no write ever raising
DurableNext ==
    \/ AddEmbeddingPlain
    \/ DeleteEmbedding
    \/ WriteFirst
    \/ WriteSecond
    \/ Finish
    \/ Restart

DurableSpec == Init /\ [][DurableNext]_vars

(***************************************************************************)
(* The embedding store under any sequence of add_embedding,                *)
(* delete_embedding and search_embeddings calls, one after the other, with *)
(* no write raising and no restart.                                        *)
(***************************************************************************)
\* the metadata dicts passed to add_embedding here
Metadatas == MetaVals \cup {"m2"}

AddEmbeddingAny ==
    \E emb_id \in EmbIds, vector \in Vecs \cup BadVecs,
       metadata \in {None} \cup {<<m>> : m \in Metadatas} :
        add_embedding(emb_id, vector, metadata)

SearchEmbeddings ==
    \E query_vector \in Vecs \cup BadVecs, top_k \in TopKs :
        search_embeddings(query_vector, top_k)

\* the rest of the call when the merge into metadata.json does not raise
FinishOk == FinishWith(TRUE)

EmbNext ==
    \/ AddEmbeddingAny
    \/ DeleteEmbedding
    \/ SearchEmbeddings
    \/ WriteFirst
    \/ WriteSecond
    \/ FinishOk

EmbSpec == Init /\ [][EmbNext]_vars

(***************************************************************************)
(* The embedding store within one process lifetime: calls one after the    *)
(* other, writes that may raise, no restart.                               *)
(***************************************************************************)
LifeNext ==
    \/ AddEmbeddingPlain
    \/ DeleteEmbedding
    \/ WriteFirst
    \/ WriteSecond
    \/ WriteFails
    \/ Finish

LifeSpec == Init /\ [][LifeNext]_vars

(***************************************************************************)
(* The embedding store when files of index_dir are damaged behind its back *)
(* and the process is started again.                                       *)
(***************************************************************************)
\* the files _load_index reads
SnapshotFiles == {"embeddings", "emb_ids", "index", "meta"}

\* a file of the snapshot becomes unreadable (truncated, garbled, its
\* permissions changed) or is deleted
Damage ==
    /\ pc = "idle"
    /\ restarts < MaxRestarts
    /\ \E f \in SnapshotFiles :
          /\ Disk[f].some
          /\ \/ f \notin unreadable /\ SetDisk([Disk EXCEPT !.unreadable = @ \cup {f}])
             \/ SetDisk([Disk EXCEPT ![f] = Absent, !.unreadable = @ \ {f}])
    /\ UNCHANGED <<use_faiss, memVars, pc, cur, write_failed, any_failed, pre, post,
                   restarts, call>>
    /\ QueueUnchanged

LoadNext ==
    \/ AddEmbeddingPlain
    \/ DeleteEmbedding
    \/ WriteFirst
    \/ WriteSecond
    \/ Finish
    \/ Damage
    \/ Restart

LoadSpec == Init /\ [][LoadNext]_vars

(***************************************************************************)
(* Two coroutines calling add_embedding and delete_embedding on the same   *)
(* Memory.  The calls take no lock: while one coroutine awaits its         *)
(* snapshot write, which runs in a worker thread, the event loop runs the  *)
(* other.                                                                  *)
(***************************************************************************)
\* the event loop turns to the other coroutine; the one that was running
\* has no call in flight or waits at the await of _persist_index_async
Switch ==
    /\ pc' = pc2
    /\ cur' = cur2
    /\ pc2' = pc
    /\ cur2' = cur
    /\ UNCHANGED <<use_faiss, memVars, diskVars, write_failed, any_failed, pre, post,
                   restarts, call>>
    /\ UNCHANGED <<tasks, conn, prevTasks, prevGet, prevConn, held, agent>>

\* add_embedding of a vector of the right length with metadata
AddEmbeddingWithMeta ==
    \E emb_id \in EmbIds, vector \in Vecs, m \in MetaVals :
        add_embedding(emb_id, vector, <<m>>)

ConcNext ==
    \/ AddEmbeddingWithMeta
    \/ DeleteEmbedding
    \/ WriteFirst
    \/ WriteSecond
    \/ Finish
    \/ Switch

ConcSpec == Init /\ [][ConcNext]_vars

(***************************************************************************)
(* Properties of the snapshot.                                             *)
(***************************************************************************)
\* C1: a store reloaded after the process died between the two file writes
\* of a snapshot write (no write having raised before) holds either the
\* state before the interrupted mutation or the state after it.
C1_CrashConsistent ==
    (call.op = "restart" /\ call.arg = "save_second" /\ any_failed = 0)
        => Mem \in {pre, post}

\* C2: when add_embedding or delete_embedding has returned and no snapshot
\* write has raised, a Memory constructed on the same index directory loads
\* exactly the in-memory embedding state: matrix rows, ids, index entries,
\* id map and next integer id.
C2_RestartRoundTrip ==
    (pc = "idle" /\ any_failed = 0) => LoadIndex(use_faiss, Disk) = Mem

\* a delete on the indexed backend has returned True after two adds
C2_Witness ==
    /\ pc = "idle"
    /\ any_failed = 0
    /\ use_faiss
    /\ call.op = "delete_embedding"
    /\ call.ret = <<TRUE>>
    /\ Len(intid_to_str) = 1
    /\ next_int_id = 3
    /\ LoadIndex(use_faiss, Disk) = Mem

\* C3: a mutation whose snapshot write raised does not return normally.
C3_WriteFailureSurfaced ==
    (pc = "idle" /\ call.op \in {"add_embedding", "delete_embedding"} /\ write_failed)
        => call.exc # "none"

(***************************************************************************)
(* Properties of the embedding store's calls.                              *)
(***************************************************************************)
\* C11: add_embedding and search_embeddings called with a vector whose
\* length is not embedding_dim fail with the dimension mismatch error, and
\* the failed call leaves the ids, the matrix or index, the id map, the
\* counter and the files as they were.
C11_DimensionMismatchRejected ==
    [][(/\ pc' = "idle"
        /\ call'.op \in {"add_embedding", "search_embeddings"}
        /\ Len(call'.arg.vector) # embedding_dim)
          => (/\ call'.exc = "ValueError"
              /\ pc = "idle"
              /\ Mem' = Mem
              /\ Disk' = Disk)]_vars

\* add_embedding of a vector of length 3 has failed on a store that holds a
\* vector and its metadata
C11_Witness ==
    /\ call.op = "add_embedding"
    /\ Len(call.arg.vector) # embedding_dim
    /\ call.exc = "ValueError"
    /\ Len(list_embedding_ids) = 1
    /\ f_metadata.some

\* the inner product of two vectors of the same length
RECURSIVE DotTo(_, _, _)
DotTo(u, v, n) == IF n = 0 THEN 0 ELSE DotTo(u, v, n - 1) + u[n] * v[n]

Dot(u, v) == DotTo(u, v, Len(u))

\* C12: search_embeddings(v, top_k=1) called right after add_embedding(id, v, m)
\* returns a result list whose first element has that id and the score v.v,
\* and that element is the only one when the store was empty before the add.
C12_AddThenSearchFindsIt ==
    [][(/\ pc = "idle"
        /\ pc' = "idle"
        /\ call.op = "add_embedding"
        /\ call.exc = "none"
        /\ call'.op = "search_embeddings"
        /\ call'.arg.top_k = 1
        /\ call'.arg.vector = call.arg.vector)
          => (/\ call'.exc = "none"
              /\ call'.ret # None
              /\ Len(call'.ret[1]) >= 1
              /\ call'.ret[1][1].id = call.id
              /\ call'.ret[1][1].score = Dot(call.arg.vector, call.arg.vector)
              /\ Held(use_faiss, Mem) = 1 => Len(call'.ret[1]) = 1)]_vars

\* the vectors the active backend holds, each with the id it is known by, in
\* insertion order
Entries ==
    IF use_faiss
    THEN LET index == IF faiss_index.some THEN faiss_index.v ELSE <<>>
         IN  [i \in DOMAIN index |->
                [id |-> IF \E j \in DOMAIN intid_to_str : intid_to_str[j].k = index[i].id
                        THEN intid_to_str[CHOOSE j \in DOMAIN intid_to_str :
                                             intid_to_str[j].k = index[i].id].v
                        ELSE Str(index[i].id),
                 vec |-> index[i].vec]]
    ELSE LET rows == IF emb_matrix.some THEN emb_matrix.v ELSE <<>>
             n == IF Len(rows) < Len(emb_ids) THEN Len(rows) ELSE Len(emb_ids)
         IN  [i \in 1..n |-> [id |-> emb_ids[i], vec |-> rows[i]]]

\* the place of entry i in the ranking for query q: behind every entry with a
\* larger inner product and every earlier entry with the same one
RankOf(q, i) ==
    1 + Cardinality({j \in DOMAIN Entries :
                        \/ Dot(Entries[j].vec, q) > Dot(Entries[i].vec, q)
                        \/ Dot(Entries[j].vec, q) = Dot(Entries[i].vec, q) /\ j < i})

\* the ids and scores of the best top_k entries for query q, best first
Ranked(q, top_k) ==
    LET n == IF top_k < Len(Entries) THEN top_k ELSE Len(Entries)
    IN  [r \in 1..n |->
            LET i == CHOOSE i \in DOMAIN Entries : RankOf(q, i) = r
            IN  [id |-> Entries[i].id, score |-> Dot(Entries[i].vec, q)]]

\* C13: search_embeddings with a query of the right length returns
\* min(top_k, N) results for a store of N vectors, by descending inner
\* product with the query, the earlier inserted first among equal scores;
\* on an empty store that is the empty list.
C13_SearchReturnsTopK ==
    (pc = "idle" /\ call.op = "search_embeddings" /\ call.exc = "none")
        => /\ call.ret # None
           /\ Len(call.ret[1]) = Len(Ranked(call.arg.vector, call.arg.top_k))
           /\ \A r \in DOMAIN call.ret[1] :
                 /\ call.ret[1][r].id = Ranked(call.arg.vector, call.arg.top_k)[r].id
                 /\ call.ret[1][r].score = Ranked(call.arg.vector, call.arg.top_k)[r].score

\* the ids list_embedding_ids returns, as a set
ListedIds == {list_embedding_ids[i] : i \in DOMAIN list_embedding_ids}

\* C14: delete_embedding of an id that is not in the store returns False and
\* leaves list_embedding_ids as it was; delete_embedding of an id that is in
\* the store returns True, and a second delete_embedding of the same id right
\* after it returns False.
C14_DeleteIdempotent ==
    [][/\ (/\ pc = "idle"
           /\ pc' = "idle"
           /\ call'.op = "delete_embedding")
             => (/\ call'.id \notin ListedIds
                 /\ call'.ret = <<FALSE>>
                 /\ list_embedding_ids' = list_embedding_ids)
       /\ (/\ pc = "idle"
           /\ pc' = "save_first"
           /\ cur'.op = "delete_embedding")
             => (/\ cur'.id \in ListedIds
                 /\ ~(/\ call.op = "delete_embedding"
                      /\ call.ret = <<TRUE>>
                      /\ call.id = cur'.id))
       /\ (/\ pc = "saved"
           /\ pc' = "idle"
           /\ cur.op = "delete_embedding")
             => call'.ret = <<TRUE>>]_vars

\* C15: once delete_embedding(id) has returned True, the id is not in
\* list_embedding_ids, and a search returns a list in which every element
\* carries an id that list_embedding_ids still has, never a deleted id or a
\* stand-in for one; with a = [1,0,0,0] deleted and b = [0,1,0,0] kept,
\* search_embeddings([1,0,0,0], top_k=2) returns exactly [(b, 0.0, {})].
C15_DeletedIdIsGone ==
    /\ (pc = "idle" /\ call.op = "delete_embedding" /\ call.ret = <<TRUE>>)
          => call.id \notin ListedIds
    /\ (pc = "idle" /\ call.op = "search_embeddings" /\ call.exc = "none")
          => /\ call.ret # None
             /\ \A r \in DOMAIN call.ret[1] : call.ret[1][r].id \in ListedIds
             /\ (/\ call.arg.vector = <<1, 0, 0, 0>>
                 /\ call.arg.top_k = 2
                 /\ Entries = <<[id |-> "b", vec |-> <<0, 1, 0, 0>>]>>)
                   => call.ret[1] = <<[id |-> "b", score |-> 0, meta |-> get_metadata("b")]>>

\* C16: delete_embedding returns True only when a vector has been removed
\* from the backend: the backend holds one vector less than when the call
\* started.
C16_DeleteReportsRemoval ==
    [][(/\ pc = "saved"
        /\ pc' = "idle"
        /\ cur.op = "delete_embedding"
        /\ call'.ret = <<TRUE>>)
          => Held(use_faiss, post) + 1 = Held(use_faiss, pre)]_vars

\* C19: list_embedding_ids never holds an id twice, whatever add_embedding
\* and delete_embedding calls were made, add_embedding of an id that is
\* already in the store included.
C19_IdsUnique ==
    \A i, j \in DOMAIN list_embedding_ids :
        i # j => list_embedding_ids[i] # list_embedding_ids[j]

\* C17: the two backends agree.  A search with a query of the right length
\* returns, on the indexed backend as on the brute-force one, the ids of the
\* stored vectors in the one rank order that the inner products and the
\* insertion order fix, the empty list on an empty store; and both reject a
\* vector of the wrong length.
C17_BackendsAgree ==
    /\ (pc = "idle" /\ call.op = "search_embeddings" /\ call.exc = "none")
          => /\ Len(call.arg.vector) = embedding_dim
             /\ call.ret # None
             /\ [r \in DOMAIN call.ret[1] |-> call.ret[1][r].id]
                   = [r \in DOMAIN Ranked(call.arg.vector, call.arg.top_k) |->
                         Ranked(call.arg.vector, call.arg.top_k)[r].id]
    /\ (pc = "idle" /\ call.op \in {"add_embedding", "search_embeddings"}
                    /\ call.exc = "ValueError")
          => Len(call.arg.vector) # embedding_dim

\* the snapshot files of the backend in use
FilesOf(faiss) == IF faiss THEN {"index", "meta"} ELSE {"embeddings", "emb_ids"}

\* loading from the files d does not go through: a file it reads is
\* unreadable, or one file of the snapshot is there and the other is missing
LoadFails(faiss, d) ==
    \/ \E f \in FilesOf(faiss) : d[f].some /\ f \in d.unreadable
    \/ \E f, g \in FilesOf(faiss) : d[f].some /\ ~d[g].some

\* C18: a Memory constructed on an index_dir whose snapshot has a missing,
\* corrupt or unreadable file is constructed all the same and is an empty
\* store: no matrix and no ids, no index and an empty id map, next integer
\* id 1.
C18_FailedLoadIsEmpty ==
    [][(/\ call'.op = "restart"
        /\ restarts' = restarts + 1
        /\ LoadFails(use_faiss, Disk))
          => Mem' = Fresh]_vars

\* C20: when add_embedding(id, v, m) with metadata m returns, get_metadata(id)
\* is m, whatever was stored for id before, and get_metadata of every other
\* id is what it was; get_metadata of an id without an entry is the empty
\* dict.
C20_MetadataStored ==
    [][/\ (/\ pc = "saved"
           /\ pc' = "idle"
           /\ cur.op = "add_embedding"
           /\ cur.metadata # None)
             => (/\ call'.op = "add_embedding"
                 /\ call'.id = cur.id
                 /\ call'.arg.metadata = cur.metadata
                 /\ MetadataOf(f_metadata', unreadable', cur.id) = cur.metadata[1]
                 /\ \A o \in EmbIds \ {cur.id} :
                       MetadataOf(f_metadata', unreadable', o) = get_metadata(o))
       /\ \A o \in EmbIds :
             (f_metadata'.some => \A i \in DOMAIN f_metadata'.v : f_metadata'.v[i].k # o)
                 => MetadataOf(f_metadata', unreadable', o) = EmptyDict]_vars

(***************************************************************************)
(* Properties of the connection.                                           *)
(***************************************************************************)
\* C21: close can be called any number of times without error, and
\* add_task, get_next_task and store_result called on a store that was never
\* opened or has been closed open the connection and then do what they do
\* on an open store, on all the tasks committed to the database file before.
C21_ReopenAfterClose ==
    /\ call.op = "close"
          => (call.exc = "none" /\ ~conn /\ tasks = prevTasks)
    /\ call.op \in {"add_task", "get_next_task", "store_result"}
          => /\ conn
             /\ call.exc = "none"
             /\ call.op = "add_task"
                   => tasks = InsertOrIgnore(prevTasks, call.id, call.arg)
             /\ call.op = "get_next_task"
                   => (tasks = prevTasks /\ call.ret = SelectPendingLimit1(prevTasks))
             /\ call.op = "store_result"
                   => tasks = UpdateDone(prevTasks, call.id, call.arg)

\* get_next_task on a closed store has returned the second of two tasks that
\* were committed before the close, the first being done
C21_Witness ==
    /\ call.op = "get_next_task"
    /\ ~prevConn
    /\ conn
    /\ Len(tasks) = 2
    /\ tasks[1].status = "done"
    /\ call.ret = <<tasks[2].id, tasks[2].command>>

(***************************************************************************)
(* Properties of concurrent calls of the store.                            *)
(***************************************************************************)
\* C22: while the snapshot write of one add_embedding or delete_embedding is
\* in flight, no coroutine changes the matrix, the id list, the index or
\* the id map, so the two files one snapshot write leaves behind belong
\* together: on the brute-force backend embeddings.npy has as many rows as
\* emb_ids.json has ids.
C22_MutationsSerialized ==
    [][/\ (pc \in {"save_first", "save_second"} \/ pc2 \in {"save_first", "save_second"})
             => Mem' = Mem
       /\ (/\ pc = "save_second"
           /\ pc' = "saved"
           /\ ~use_faiss
           /\ f_embeddings'.some)
             => Len(f_embeddings'.v) = Len(f_emb_ids'.v)]_vars

\* the ids that have an entry in metadata.json
MetadataIds ==
    IF f_metadata.some THEN {f_metadata.v[i].k : i \in DOMAIN f_metadata.v} ELSE {}

\* C23: no metadata update is lost, however concurrent add_embedding calls
\* with metadata are interleaved: when such a call returns, metadata.json
\* holds the entry for its id, and no step takes an entry away, so once all
\* calls have returned the file has the entry of every one of their ids.
C23_NoLostMetadata ==
    [][/\ MetadataIds \subseteq MetadataIds'
       /\ (/\ pc = "saved"
           /\ pc' = "idle"
           /\ pc2' = pc2
           /\ cur.op = "add_embedding"
           /\ cur.metadata # None)
             => cur.id \in MetadataIds']_vars

(***************************************************************************)
(* Properties of the two backends' bookkeeping.                            *)
(***************************************************************************)
\* the integer keys of the id map
MapKeys == {intid_to_str[i].k : i \in DOMAIN intid_to_str}

\* C24: on the indexed backend, while the process lives, every key of the id
\* map is below _next_int_id, the counter never goes down, and an
\* add_embedding takes the counter's value as its key and moves the counter
\* past it, so no key is used twice, a deleted embedding's key included.
C24_KeysNeverReused ==
    /\ [](use_faiss => \A k \in MapKeys : k < next_int_id)
    /\ [][use_faiss =>
            /\ next_int_id' >= next_int_id
            /\ \A k \in MapKeys' \ MapKeys :
                  /\ k = next_int_id
                  /\ next_int_id' = k + 1]_vars

\* the first embedding was deleted and the one added after it has key 2
C24_Witness ==
    /\ use_faiss
    /\ pc = "idle"
    /\ call.op = "add_embedding"
    /\ call.exc = "none"
    /\ MapKeys = {2}
    /\ next_int_id = 3

\* the rows of the in-memory matrix
Rows == IF emb_matrix.some THEN emb_matrix.v ELSE <<>>

\* C25: on the brute-force backend the matrix has as many rows as the id
\* list has ids, and row i is the vector added under the id at position i:
\* an add_embedding appends its vector and its id, a delete_embedding takes
\* out the row and the id at one and the same position and keeps the order
\* of the rest, and nothing else changes either of them.
C25_RowsMatchIds ==
    /\ [](~use_faiss => Len(Rows) = Len(emb_ids))
    /\ [][~use_faiss =>
            \/ /\ pc' = "save_first"
               /\ cur'.op = "add_embedding"
               /\ emb_ids' = Append(emb_ids, cur'.id)
               /\ Rows' = Append(Rows, cur'.vector)
            \/ /\ pc' = "save_first"
               /\ cur'.op = "delete_embedding"
               /\ \E idx \in DOMAIN emb_ids :
                     /\ emb_ids[idx] = cur'.id
                     /\ emb_ids' = RemoveAt(emb_ids, idx)
                     /\ Rows' = RemoveAt(Rows, idx)
            \/ /\ emb_ids' = emb_ids
               /\ Rows' = Rows]_vars

\* 'a' was deleted from a matrix of two rows: the row and the id of 'b' are
\* what is left
C25_Witness ==
    /\ ~use_faiss
    /\ pc = "idle"
    /\ call.op = "delete_embedding"
    /\ call.id = "a"
    /\ call.ret = <<TRUE>>
    /\ emb_ids = <<"b">>
    /\ Rows = <<<<0, 1, 0, 0>>>>

(***************************************************************************)
(* The agent loop (Agent.run calling Agent.run_once again and again) on    *)
(* the task queue, while tasks are being added.  run_once is cut at its    *)
(* awaits; agent.pc says which one it stands at, held is its local task,   *)
(* agent.risk, agent.approved and agent.parsed its locals risk, approved   *)
(* and parsed.  The context log, the temp JSON and the journal file it     *)
(* writes are advisory and are not part of the state.                      *)
(***************************************************************************)
\* the commands handed to the agent
AgentCommands == Commands \cup {"ls", "SHUTDOWN scan"}

\* what the human types at the approval prompt
Responses == {"y", " Y ", "n", ""}

\* what ToolsRunner.run returns: (returncode, stdout, stderr); it never
\* raises, a timeout or a failure to start being (-1, "", message)
ToolOutputs == {<<0, "ok ", "">>}

\* str.lower() on the strings above
Lower(s) ==
    CASE s = "SHUTDOWN scan" -> "shutdown scan"
      [] s = " Y " -> " y "
      [] OTHER -> s

\* str.strip() on the strings above
Strip(s) ==
    CASE s = " y " -> "y"
      [] s = " Y " -> "Y"
      [] s = "ok " -> "ok"
      [] OTHER -> s

\* k in cmd, for the keywords of _assess_risk and the lowercased commands
Occurs(k, cmd) ==
    <<k, cmd>> \in {<<"ping", "ping host">>, <<"nmap", "nmap host">>,
                    <<"shutdown", "shutdown scan">>, <<"scan", "shutdown scan">>}

low_risk_keywords == {"ping", "curl", "wget", "whois", "nslookup"}

med_risk_keywords == {"nmap", "masscan", "scan"}

high_risk_keywords == {"exploit", "rm -rf", "shutdown", "reboot"}

assess_risk(command) ==
    LET cmd == Lower(command)
    IN  IF \E k \in high_risk_keywords : Occurs(k, cmd) THEN 5
        ELSE IF \E k \in med_risk_keywords : Occurs(k, cmd) THEN 3
        ELSE IF \E k \in low_risk_keywords : Occurs(k, cmd) THEN 1
        ELSE 2

\* input("Approve? (y/N): ").strip().lower() == "y"
request_approval(resp) == Lower(Strip(resp)) = "y"

\* json.dumps of a dict
Dumps(d) == ToString(d)

\* Parser.parse of an output that lists no open port and is not JSON
parse(raw) ==
    [exitcode |-> raw[1], stdout |-> Strip(raw[2]), stderr |-> Strip(raw[3]),
     structured |-> <<>>]

BlockedPayload(risk) == [status |-> "blocked_by_human", risk |-> risk]

ResultPayload(task, risk, parsed) ==
    [task_id |-> task[1], command |-> task[2], verified |-> TRUE, risk |-> risk,
     parsed |-> parsed]

\* a store_result whose UPDATE raises: nothing is written
store_result_raising(task_id, result) ==
    /\ conn' = TRUE
    /\ tasks' = tasks
    /\ call' = Call("store_result", task_id, result, None, "OperationalError")
    /\ Remember

\* someone adds a new task while the loop runs
Submit ==
    \E id \in TaskIds, c \in AgentCommands :
        /\ ~HasId(tasks, id)
        /\ add_task(id, c)
        /\ UNCHANGED <<held, agent, storeVars>>

\* a run_once that sends every task it fetched to the tools runner
RunOnceFetchUngated ==
    /\ agent.pc = "fetch"
    /\ get_next_task
    /\ LET task == SelectPendingLimit1(tasks)
       IN  IF task = None
           THEN held' = None /\ agent' = AgentIdle
           ELSE /\ held' = task
                /\ agent' = [AgentIdle EXCEPT !.pc = "tools", !.risk = assess_risk(task[2])]
    /\ UNCHANGED storeVars

\* lines 71-78: fetch; no task: sleep and return; else assess the risk
RunOnceFetch ==
    /\ agent.pc = "fetch"
    /\ get_next_task
    /\ LET task == SelectPendingLimit1(tasks)
           risk == assess_risk(task[2])
       IN  IF task = None
           THEN held' = None /\ agent' = AgentIdle
           ELSE /\ held' = task
                /\ agent' = [AgentIdle EXCEPT
                                !.pc = IF risk >= 3 THEN "approval" ELSE "tools",
                                !.risk = risk]
    /\ UNCHANGED storeVars

\* lines 79-80: the prompt is answered
RequestApproval ==
    /\ agent.pc = "approval"
    /\ \E resp \in Responses :
          agent' = [agent EXCEPT !.approved = request_approval(resp),
                                 !.pc = IF request_approval(resp) THEN "tools" ELSE "blocked"]
    /\ UNCHANGED <<tasks, conn, call, prevTasks, prevGet, prevConn, held, storeVars>>

\* line 79: input() raises (EOFError on a closed stdin); run_once raises and
\* run (lines 133-135) logs it and goes on
RequestApprovalRaises ==
    /\ agent.pc = "approval"
    /\ agent' = AgentIdle
    /\ held' = None
    /\ UNCHANGED <<tasks, conn, call, prevTasks, prevGet, prevConn, storeVars>>

\* lines 82-84: the denied task is recorded and the iteration ends
StoreBlocked ==
    /\ agent.pc = "blocked"
    /\ store_result(held[1], Dumps(BlockedPayload(agent.risk)))
    /\ agent' = AgentIdle
    /\ held' = None
    /\ UNCHANGED storeVars

\* line 82 raises: run_once raises and run (lines 133-135) logs it and goes on
StoreBlockedRaises ==
    /\ agent.pc = "blocked"
    /\ store_result_raising(held[1], Dumps(BlockedPayload(agent.risk)))
    /\ agent' = AgentIdle
    /\ held' = None
    /\ UNCHANGED storeVars

\* lines 86-101: the tools runner executes the command, the parser parses
RunTools ==
    /\ agent.pc = "tools"
    /\ \E raw \in ToolOutputs :
          agent' = [agent EXCEPT !.pc = "store", !.parsed = parse(raw)]
    /\ UNCHANGED <<tasks, conn, call, prevTasks, prevGet, prevConn, held, storeVars>>

\* an iteration that ends without the UPDATE having been made
StoreOutcomeDropped ==
    /\ agent.pc = "store"
    /\ conn' = TRUE
    /\ tasks' = tasks
    /\ call' = Call("store_result", held[1],
                    Dumps(ResultPayload(held, agent.risk, agent.parsed)), None, "none")
    /\ Remember
    /\ agent' = AgentIdle
    /\ held' = None
    /\ UNCHANGED storeVars

\* lines 104-121: the result is stored and the iteration ends
StoreOutcome ==
    /\ agent.pc = "store"
    /\ store_result(held[1], Dumps(ResultPayload(held, agent.risk, agent.parsed)))
    /\ agent' = AgentIdle
    /\ held' = None
    /\ UNCHANGED storeVars

\* line 105 raises: lines 106-107 log it and the iteration ends
StoreOutcomeRaises ==
    /\ agent.pc = "store"
    /\ store_result_raising(held[1], Dumps(ResultPayload(held, agent.risk, agent.parsed)))
    /\ agent' = AgentIdle
    /\ held' = None
    /\ UNCHANGED storeVars

AgentNext ==
    \/ Submit
    \/ RunOnceFetch
    \/ RequestApproval
    \/ RequestApprovalRaises
    \/ StoreBlocked
    \/ StoreBlockedRaises
    \/ RunTools
    \/ StoreOutcome
    \/ StoreOutcomeRaises

AgentSpec == Init /\ [][AgentNext]_vars

(***************************************************************************)
(* Properties of the agent loop.                                           *)
(***************************************************************************)
\* the step is one of run_once, not an add_task from outside
AgentStep == agent' # agent \/ held' # held

\* the table has the task as a done row whose result is the given payload
RecordedAs(tbl, task, payload) ==
    /\ HasId(tbl, task[1])
    /\ RowOf(tbl, task[1]) = [id |-> task[1], command |-> task[2], status |-> "done",
                              result |-> <<Dumps(payload)>>]

\* get_next_task on the table would return the task
Fetchable(tbl, task) ==
    SelectPendingLimit1(tbl) # None /\ SelectPendingLimit1(tbl)[1] = task[1]

\* C26: the tools runner executes the held task only in an iteration whose
\* assessed risk is below 3 or whose approval was granted; an iteration whose
\* approval was denied goes on to store_result and never to the tools
\* runner, and when that store_result returns the task is a done row with
\* the blocked_by_human result, which stays as it is, so that get_next_task
\* does not return the task again.
C26_DeniedNeverExecuted ==
    [][/\ (agent.pc = "tools" /\ AgentStep) =>
              /\ agent'.pc = "store" /\ held' = held
              /\ agent.risk = assess_risk(held[2])
              /\ agent.risk < 3 \/ agent.approved
       /\ (agent'.pc = "store" /\ AgentStep) => agent.pc = "tools"
       /\ (agent.pc = "approval" /\ AgentStep /\ agent'.pc # "fetch") =>
              /\ held' = held
              /\ agent.risk >= 3 /\ agent'.risk = agent.risk
              /\ agent'.pc = IF agent'.approved THEN "tools" ELSE "blocked"
       /\ (agent.pc = "blocked" /\ AgentStep) =>
              /\ agent'.pc = "fetch"
              /\ ~agent.approved
              /\ call'.op = "store_result" /\ call'.id = held[1]
              /\ call'.exc = "none" =>
                    /\ RecordedAs(tasks', held, BlockedPayload(assess_risk(held[2])))
                    /\ ~Fetchable(tasks', held)
       /\ \A i \in DOMAIN tasks :
              tasks[i].status = "done" =>
                    /\ tasks'[i] = tasks[i]
                    /\ ~Fetchable(tasks', <<tasks[i].id, tasks[i].command>>)]_vars

\* a denied nmap task has been recorded as blocked while another task waits
C26_Witness ==
    /\ agent.pc = "fetch"
    /\ call.op = "store_result" /\ call.exc = "none"
    /\ RecordedAs(tasks, <<call.id, "nmap host">>, BlockedPayload(3))
    /\ SelectPendingLimit1(tasks) # None

(***************************************************************************)
(* The agent loop as it is scheduled: the event loop resumes run_once at   *)
(* each of its awaits and run calls it again for ever (weak fairness of    *)
(* the steps that cannot fail); a prompt that keeps being shown is         *)
(* answered and a store_result that keeps being called goes through        *)
(* (strong fairness of the steps that have a raising alternative).         *)
(***************************************************************************)
AgentLiveSpec ==
    /\ Init
    /\ [][AgentNext]_vars
    /\ WF_vars(RunOnceFetch)
    /\ WF_vars(RunTools)
    /\ SF_vars(RequestApproval)
    /\ SF_vars(StoreBlocked)
    /\ SF_vars(StoreOutcome)

StatusOf(id) == IF HasId(tasks, id) THEN RowOf(tasks, id).status ELSE "absent"

\* the last call was a store_result for the task that raised
StoreFailed(id) ==
    /\ call.op = "store_result" /\ call.exc # "none" /\ call.id = id
    /\ agent.pc = "fetch"

\* run_once has the task in hand again, past the tools runner when its risk
\* is below 3 and past the fetch when it has to ask for approval
ExecutedAgain(id) ==
    /\ held # None /\ held[1] = id
    /\ assess_risk(held[2]) < 3 => agent.pc = "store"

\* C27, the steps: an iteration fetches once, at its start, and keeps the
\* task it fetched until it ends; when its store_result returns, the task it
\* holds is done as the iteration ends; when its store_result raises, the
\* table is as it was and get_next_task would return the same task again.
C27_OneTaskPerIteration ==
    /\ (agent.pc = "fetch" /\ AgentStep) =>
          /\ held = None /\ tasks' = tasks
          /\ held' = SelectPendingLimit1(tasks)
    /\ (agent.pc # "fetch" /\ AgentStep) =>
          /\ held # None /\ held' \in {held, None}
          /\ held' = None <=> agent'.pc = "fetch"
    /\ (agent.pc \in {"store", "blocked"} /\ AgentStep) =>
          /\ agent'.pc = "fetch"
          /\ call'.op = "store_result" /\ call'.id = held[1]
          /\ call'.exc = "none" =>
                /\ HasId(tasks', held[1]) /\ RowOf(tasks', held[1]).status = "done"
                /\ agent.pc = "store" =>
                      RecordedAs(tasks', held, ResultPayload(held, agent.risk, agent.parsed))
          /\ call'.exc # "none" => (tasks' = tasks /\ Fetchable(tasks', held))

====
